---- MODULE Spec2Model ----
(***************************************************************************)
(* Model of Tesla_at_front.py: the script connects to a CARLA world, takes *)
(* synchronous control when it may, finds the ego vehicle, asks the world  *)
(* to place one stationary vehicle in front of it (retrying with a growing *)
(* vertical offset), idles stepping or waiting for the simulation clock,   *)
(* and destroys the vehicles it listed when it leaves.                     *)
(*                                                                         *)
(* Lengths are integers counted in half units, so that the 0.5 step of     *)
(* line 64 is one; rotations are multiples of 90 degrees, so that forward  *)
(* vectors have integer components.  The world authority's answer to a     *)
(* placement request is a nondeterministic choice.  Exceptions raised from *)
(* outside (KeyboardInterrupt, a RuntimeError of the client) are modelled  *)
(* at the blocking calls of the idle loop, where the program spends its    *)
(* unbounded time.                                                         *)
(***************************************************************************)
EXTENDS Integers, Sequences, FiniteSets, TLC

\* ------------------------------------------------------------------ bounds
MaxActors == 2
MaxIdle == 2
MaxRetries == 5

\* --------------------------------------------------------------- constants
DefaultDistance == 75
DefaultRetries == 5
FixedDeltaMs == 50
HalvesPerUnit == 2
ZStepHalves == 1
NoActor == 0

\* --------------------------------------------------------------- variables
VARIABLES
    pc,                 \* position of main
    asynch,             \* args.asynch
    worldSettings,      \* the settings the world holds
    actors,             \* the world's actor list, in order
    nextId,             \* the id the world gives its next actor
    settings,           \* main's local copy of the settings
    synchronous_master, \* main's ownership flag
    ego_vehicle,        \* main's ego_vehicle (an actor id, or NoActor)
    new_vehicle,        \* main's new_vehicle (an actor id, or NoActor)
    vehicles_list,      \* main's vehicles_list
    exc,                \* the exception in flight in main ("none" when none)
    exitExc,            \* the exception that left the program uncaught
    batches,            \* destroy lists given to client.apply_batch, in order
    destroyed,          \* ids of the actors apply_batch destroyed
    applyCount,         \* number of world.apply_settings calls
    numTick,            \* number of world.tick calls
    numWait,            \* number of world.wait_for_tick calls
    fpc,                \* position of spawn_vehicle_in_front_of_ego_vehicle
    egoArg,             \* its ego_vehicle argument (an actor id)
    distance,           \* its distance argument
    retries,            \* its retries argument
    ego_transform,      \* its local ego_transform
    forward_vector,     \* its local forward_vector
    vehicle_blueprint,  \* its local vehicle_blueprint (attributes)
    i,                  \* its loop index
    requests,           \* the try_spawn_actor requests it issued, in order
    result,             \* its return value (an actor id, or NoActor)
    invocations,        \* number of invocations of the procedure
    world0,             \* history: the world when the program started
    entryWorld          \* history: the world when the procedure was entered

vars == <<pc, asynch, worldSettings, actors, nextId, settings,
          synchronous_master, ego_vehicle, new_vehicle, vehicles_list, exc,
          exitExc, batches, destroyed, applyCount, numTick, numWait, fpc,
          egoArg, distance, retries, ego_transform, forward_vector,
          vehicle_blueprint, i, requests, result, invocations, world0,
          entryWorld>>

mainVars == <<pc, asynch, settings, synchronous_master, ego_vehicle,
              new_vehicle, vehicles_list, exc, exitExc>>
worldVars == <<worldSettings, actors, nextId, batches, destroyed, applyCount>>
idleVars == <<numTick, numWait>>
argVars == <<egoArg, distance, retries>>
localVars == <<ego_transform, forward_vector, vehicle_blueprint>>
histVars == <<world0, entryWorld>>

\* ------------------------------------------------------- the world's data
Location(x, y, z) == [x |-> x, y |-> y, z |-> z]
Rotation(pitch, yaw, roll) == [pitch |-> pitch, yaw |-> yaw, roll |-> roll]
Transform(l, r) == [location |-> l, rotation |-> r]

\* cosine and sine of a multiple of 90 degrees
Cos90(d) == CASE d % 360 = 0 -> 1 [] d % 360 = 180 -> -1 [] OTHER -> 0
Sin90(d) == CASE d % 360 = 90 -> 1 [] d % 360 = 270 -> -1 [] OTHER -> 0

\* carla.Transform.get_forward_vector
GetForwardVector(t) ==
    Location(Cos90(t.rotation.pitch) * Cos90(t.rotation.yaw),
             Cos90(t.rotation.pitch) * Sin90(t.rotation.yaw),
             Sin90(t.rotation.pitch))

\* carla.Location + carla.Vector3D: a new object, the operands are kept
LocAdd(a, b) == Location(a.x + b.x, a.y + b.y, a.z + b.z)
\* carla.Vector3D * scalar (the scalar in whole units)
VecMul(v, d) == Location(v.x * d * HalvesPerUnit, v.y * d * HalvesPerUnit,
                         v.z * d * HalvesPerUnit)

Transforms ==
    { Transform(Location(20, -8, 1), Rotation(0, 180, 0)),
      Transform(Location(-6, 4, 3), Rotation(90, 270, 0)) }

\* type ids are sequences of their dot-separated parts, attribute values
\* sequences of pieces of text
\* attribute dictionaries are sets of <<key, value>> pairs
RoleAttrs ==
    { { <<"role_name", <<"ego_vehicle">>>> },
      { <<"role_name", <<"my_", "ego_vehicle", "_2">>>> },
      {} }

ActorShapes ==
    { [type_id |-> <<"vehicle", "audi", "tt">>, attributes |-> a] : a \in RoleAttrs }
    \cup { [type_id |-> <<"walker", "pedestrian", "0001">>,
            attributes |-> { <<"role_name", <<"ego_vehicle">>>> }] }

MkActor(id, shape, t) ==
    [id |-> id, type_id |-> shape.type_id, attributes |-> shape.attributes,
     transform |-> t]

ActorLists ==
    UNION { { [k \in 1..n |-> MkActor(k, s[k], t[k])] :
                s \in [1..n -> ActorShapes], t \in [1..n -> Transforms] } :
            n \in 0..MaxActors }

InitialSettings ==
    { [synchronous_mode |-> FALSE, fixed_delta_seconds |-> 0],
      [synchronous_mode |-> TRUE, fixed_delta_seconds |-> 100] }

Ids(as) == { as[k].id : k \in 1..Len(as) }
ActorById(as, id) == as[CHOOSE k \in 1..Len(as) : as[k].id = id]

\* dict.get(key, default)
AttrGet(attrs, key, default) ==
    IF \E p \in attrs : p[1] = key
    THEN (CHOOSE p \in attrs : p[1] = key)[2]
    ELSE default

\* ActorBlueprint.set_attribute(key, value)
SetAttribute(attrs, key, value) ==
    { p \in attrs : p[1] # key } \cup { <<key, value>> }

\* needle in hay, for strings
Contains(needle, hay) ==
    \E k \in 1..(Len(hay) - Len(needle) + 1) :
        SubSeq(hay, k, k + Len(needle) - 1) = needle

\* ActorList.filter('vehicle.*'): the actors whose type id matches, in order
FilterVehicles(as) ==
    SelectSeq(as, LAMBDA a : Len(a.type_id) >= 2 /\ a.type_id[1] = "vehicle")

\* line 163: 'ego_vehicle' in vehicle.attributes.get('role_name', '')
IsEgo(a) == Contains(<<"ego_vehicle">>, AttrGet(a.attributes, "role_name", <<>>))

\* FindEgo without the break of line 165: the last match wins
FindEgoLast(as) ==
    LET vs == FilterVehicles(as)
        hits == { k \in 1..Len(vs) : IsEgo(vs[k]) }
    IN  IF hits = {} THEN NoActor
        ELSE vs[CHOOSE k \in hits : \A j \in hits : k >= j].id

\* lines 161-165: the first vehicle of the list with the ego role, or None
FindEgo(as) ==
    LET vs == FilterVehicles(as)
        hits == { k \in 1..Len(vs) : IsEgo(vs[k]) }
    IN  IF hits = {} THEN NoActor
        ELSE vs[CHOOSE k \in hits : \A j \in hits : k <= j].id

\* --------------------------------------------------------------- Init
NoTransform == Transform(Location(0, 0, 0), Rotation(0, 0, 0))

InitCommon ==
    /\ actors \in ActorLists
    /\ nextId = Len(actors) + 1
    /\ settings = worldSettings
    /\ synchronous_master = FALSE
    /\ ego_vehicle = NoActor
    /\ new_vehicle = NoActor
    /\ vehicles_list = <<>>
    /\ exc = "none"
    /\ exitExc = "none"
    /\ batches = <<>>
    /\ destroyed = {}
    /\ applyCount = 0
    /\ numTick = 0
    /\ numWait = 0
    /\ ego_transform = NoTransform
    /\ forward_vector = Location(0, 0, 0)
    /\ vehicle_blueprint = {}
    /\ i = 0
    /\ requests = <<>>
    /\ result = NoActor
    /\ world0 = [settings |-> worldSettings, actors |-> actors]
    /\ entryWorld = world0

\* the program is started: main is about to run (lines 123-126)
Init ==
    /\ asynch \in BOOLEAN
    /\ worldSettings \in InitialSettings
    /\ InitCommon
    /\ pc = "start"
    /\ fpc = "idle"
    /\ egoArg = NoActor
    /\ distance = DefaultDistance
    /\ retries = DefaultRetries
    /\ invocations = 0

\* ----------------------------------------------------------------- main
\* lines 129-142: read the settings, decide who owns synchronous control
Configure ==
    /\ pc = "start"
    /\ IF ~asynch
       THEN IF ~worldSettings.synchronous_mode
            THEN /\ synchronous_master' = TRUE
                 /\ settings' = [synchronous_mode |-> TRUE,
                                 fixed_delta_seconds |-> FixedDeltaMs]
            ELSE /\ synchronous_master' = FALSE
                 /\ settings' = worldSettings
       ELSE /\ settings' = worldSettings
            /\ UNCHANGED synchronous_master
    /\ pc' = "apply"
    /\ UNCHANGED <<asynch, ego_vehicle, new_vehicle, vehicles_list, exc, exitExc>>
    /\ UNCHANGED <<worldVars, idleVars, fpc, argVars, localVars, i, requests,
                   result, invocations, histVars>>

\* lines 144-156: world.apply_settings(settings); the blueprint list that
\* follows is computed and never used
ApplySettings ==
    /\ pc = "apply"
    /\ worldSettings' = settings
    /\ applyCount' = applyCount + 1
    /\ pc' = "find_ego"
    /\ UNCHANGED <<asynch, settings, synchronous_master, ego_vehicle, new_vehicle,
                   vehicles_list, exc, exitExc>>
    /\ UNCHANGED <<actors, nextId, batches, destroyed, idleVars, fpc, argVars,
                   localVars, i, requests, result, invocations, histVars>>

\* lines 161-172: look for the ego vehicle; return when there is none,
\* call the placement procedure with the default distance and retries else
IdentifyEgo ==
    /\ pc = "find_ego"
    /\ ego_vehicle' = FindEgo(actors)
    /\ IF ego_vehicle' = NoActor
       THEN /\ pc' = "finally"
            /\ UNCHANGED <<fpc, argVars, invocations>>
       ELSE /\ pc' = "spawn_call"
            /\ fpc' = "entry"
            /\ egoArg' = ego_vehicle'
            /\ distance' = DefaultDistance
            /\ retries' = DefaultRetries
            /\ invocations' = invocations + 1
    /\ UNCHANGED <<asynch, settings, synchronous_master, new_vehicle,
                   vehicles_list, exc, exitExc>>
    /\ UNCHANGED <<worldVars, idleVars, localVars, i, requests, result, histVars>>

\* RecordVehicle listing the id of the loop variable of line 162, the ego
RecordVehicleEgo ==
    /\ pc = "spawn_call"
    /\ fpc = "returned"
    /\ new_vehicle' = result
    /\ IF result = NoActor
       THEN /\ exc' = "AttributeError"
            /\ pc' = "finally"
            /\ UNCHANGED vehicles_list
       ELSE /\ vehicles_list' = Append(vehicles_list, ego_vehicle)
            /\ pc' = "idle"
            /\ UNCHANGED exc
    /\ UNCHANGED <<asynch, settings, synchronous_master, ego_vehicle, exitExc>>
    /\ UNCHANGED <<worldVars, idleVars, fpc, argVars, localVars, i, requests,
                   result, invocations, histVars>>

\* lines 172-174: take the procedure's result and list its id; reading .id
\* of None raises AttributeError
RecordVehicle ==
    /\ pc = "spawn_call"
    /\ fpc = "returned"
    /\ new_vehicle' = result
    /\ IF result = NoActor
       THEN /\ exc' = "AttributeError"
            /\ pc' = "finally"
            /\ UNCHANGED vehicles_list
       ELSE /\ vehicles_list' = Append(vehicles_list, result)
            /\ pc' = "idle"
            /\ UNCHANGED exc
    /\ UNCHANGED <<asynch, settings, synchronous_master, ego_vehicle, exitExc>>
    /\ UNCHANGED <<worldVars, idleVars, fpc, argVars, localVars, i, requests,
                   result, invocations, histVars>>

\* OwnsTick without the ownership flag
OwnsTickAlways == ~asynch

\* line 177: the condition under which the idle loop steps the clock
OwnsTick == ~asynch /\ synchronous_master

\* lines 176-180: one iteration of the idle loop
IdleStep ==
    /\ pc = "idle"
    /\ numTick + numWait < MaxIdle
    /\ IF OwnsTick
       THEN numTick' = numTick + 1 /\ UNCHANGED numWait
       ELSE numWait' = numWait + 1 /\ UNCHANGED numTick
    /\ UNCHANGED <<mainVars, worldVars, fpc, argVars, localVars, i, requests,
                   result, invocations, histVars>>

\* lines 176-180: the blocking call of the idle loop raises
IdleInterrupt(kind) ==
    /\ pc = "idle"
    /\ exc' = kind
    /\ pc' = "finally"
    /\ UNCHANGED <<asynch, settings, synchronous_master, ego_vehicle, new_vehicle,
                   vehicles_list, exitExc>>
    /\ UNCHANGED <<worldVars, idleVars, fpc, argVars, localVars, i, requests,
                   result, invocations, histVars>>

\* carla.command.DestroyActor applied to the world's actor list
DestroyActors(as, ids) == SelectSeq(as, LAMBDA a : a.id \notin ids)

SeqToSet(s) == { s[k] : k \in 1..Len(s) }

\* Finally giving synchronous control back before it leaves
FinallyRestore ==
    /\ pc = "finally"
    /\ batches' = Append(batches, vehicles_list)
    /\ actors' = DestroyActors(actors, SeqToSet(vehicles_list))
    /\ destroyed' = destroyed \cup (SeqToSet(vehicles_list) \cap Ids(actors))
    /\ IF ~asynch /\ synchronous_master
       THEN /\ worldSettings' = [synchronous_mode |-> FALSE,
                                 fixed_delta_seconds |-> 0]
            /\ applyCount' = applyCount + 1
       ELSE UNCHANGED <<worldSettings, applyCount>>
    /\ pc' = "toplevel"
    /\ UNCHANGED <<asynch, settings, synchronous_master, ego_vehicle, new_vehicle,
                   vehicles_list, exc, exitExc>>
    /\ UNCHANGED <<nextId, idleVars, fpc, argVars, localVars, i, requests, result,
                   invocations, histVars>>

\* lines 182-186: the finally block of main, one apply_batch call
Finally ==
    /\ pc = "finally"
    /\ batches' = Append(batches, vehicles_list)
    /\ actors' = DestroyActors(actors, SeqToSet(vehicles_list))
    /\ destroyed' = destroyed \cup (SeqToSet(vehicles_list) \cap Ids(actors))
    /\ pc' = "toplevel"
    /\ UNCHANGED <<asynch, settings, synchronous_master, ego_vehicle, new_vehicle,
                   vehicles_list, exc, exitExc>>
    /\ UNCHANGED <<worldSettings, nextId, applyCount, idleVars, fpc, argVars,
                   localVars, i, requests, result, invocations, histVars>>

\* lines 189-195: KeyboardInterrupt is swallowed, anything else leaves the
\* program uncaught
TopLevel ==
    /\ pc = "toplevel"
    /\ exitExc' = IF exc = "KeyboardInterrupt" THEN "none" ELSE exc
    /\ exc' = "none"
    /\ pc' = "done"
    /\ UNCHANGED <<asynch, settings, synchronous_master, ego_vehicle, new_vehicle,
                   vehicles_list>>
    /\ UNCHANGED <<worldVars, idleVars, fpc, argVars, localVars, i, requests,
                   result, invocations, histVars>>

\* ---------------------------------- spawn_vehicle_in_front_of_ego_vehicle
\* the blueprint blueprint_library.find('vehicle.tesla.model3') returns
TeslaTypeId == <<"vehicle", "tesla", "model3">>
TeslaBlueprint == { <<"role_name", <<"autopilot">>>>, <<"color", <<"17,37,103">>>> }
\* vehicle_blueprint.get_attribute('color').recommended_values
RecommendedColors == { <<"17,37,103">>, <<"12,42,94">> }
Distances == { 1, DefaultDistance }

\* lines 50-60: read the reference pose, prepare the blueprint
SpawnEnter ==
    /\ fpc = "entry"
    /\ ego_transform' = ActorById(actors, egoArg).transform
    /\ forward_vector' = GetForwardVector(ego_transform')
    /\ \E color \in RecommendedColors :
          vehicle_blueprint' =
              SetAttribute(SetAttribute(TeslaBlueprint, "color", color),
                           "role_name", <<"stationary">>)
    /\ i' = 0
    /\ requests' = <<>>
    /\ result' = NoActor
    /\ entryWorld' = [settings |-> worldSettings, actors |-> actors]
    /\ fpc' = "loop"
    /\ UNCHANGED <<mainVars, worldVars, idleVars, argVars, invocations, world0>>

\* SpawnLocation with the location carried from one attempt to the next
SpawnLocationAccum(et, fv, d, idx) ==
    LET spawn_location == LocAdd(et.location, VecMul(fv, d))
    IN  [spawn_location EXCEPT !.z = @ + ((idx * (idx + 1)) \div 2) * ZStepHalves]

\* lines 63-64: the candidate location of attempt idx
SpawnLocation(et, fv, d, idx) ==
    LET spawn_location == LocAdd(et.location, VecMul(fv, d))
    IN  [spawn_location EXCEPT !.z = @ + idx * ZStepHalves]

\* RangeDone of range(retries + 1)
RangeDoneLate(idx, n) == idx > n

\* line 62: range(retries) has no index left
RangeDone(idx, n) == idx >= n

\* Returns without the return of line 72
ReturnsNever(vehicle) == FALSE

\* line 70: the attempt's answer ends the procedure
Returns(vehicle) == vehicle # NoActor

\* line 69: world.try_spawn_actor, the world's answer being accept or not
TrySpawnActor(as, nid, bp, t, accept) ==
    IF accept
    THEN [actors |-> Append(as, [id |-> nid, type_id |-> TeslaTypeId,
                                 attributes |-> bp, transform |-> t]),
          nextId |-> nid + 1, vehicle |-> nid]
    ELSE [actors |-> as, nextId |-> nid, vehicle |-> NoActor]

\* lines 62-72: one attempt of the retry loop
SpawnAttempt(accept) ==
    /\ fpc = "loop"
    /\ ~RangeDone(i, retries)
    /\ LET spawn_transform ==
               Transform(SpawnLocation(ego_transform, forward_vector, distance, i),
                         ego_transform.rotation)
           ans == TrySpawnActor(actors, nextId, vehicle_blueprint,
                                spawn_transform, accept)
       IN  /\ actors' = ans.actors
           /\ nextId' = ans.nextId
           /\ requests' = Append(requests, [index |-> i,
                                           transform |-> spawn_transform,
                                           vehicle |-> ans.vehicle])
           /\ IF Returns(ans.vehicle)
              THEN /\ result' = ans.vehicle
                   /\ fpc' = "returned"
                   /\ UNCHANGED i
              ELSE /\ i' = i + 1
                   /\ UNCHANGED <<result, fpc>>
    /\ UNCHANGED <<mainVars, worldSettings, batches, destroyed, applyCount,
                   idleVars, argVars, localVars, invocations, histVars>>

\* lines 74-75: every attempt was refused
SpawnExhaust ==
    /\ fpc = "loop"
    /\ RangeDone(i, retries)
    /\ result' = NoActor
    /\ fpc' = "returned"
    /\ UNCHANGED <<mainVars, worldVars, idleVars, argVars, localVars, i,
                   requests, invocations, histVars>>

\* ------------------------------------------------------- specifications
Next ==
    \/ Configure
    \/ ApplySettings
    \/ IdentifyEgo
    \/ SpawnEnter
    \/ \E accept \in BOOLEAN : SpawnAttempt(accept)
    \/ SpawnExhaust
    \/ RecordVehicle
    \/ IdleStep
    \/ \E kind \in {"KeyboardInterrupt", "RuntimeError"} : IdleInterrupt(kind)
    \/ Finally
    \/ TopLevel

\* the whole program
Spec == Init /\ [][Next]_vars

\* the whole program, which keeps running once an exception is in flight
LiveSpec == Spec /\ WF_vars(Finally) /\ WF_vars(TopLevel)

\* the placement procedure called on its own, with any arguments
InitSpawn ==
    /\ asynch = FALSE
    /\ worldSettings \in InitialSettings
    /\ InitCommon
    /\ Len(actors) >= 1
    /\ pc = "harness"
    /\ fpc = "entry"
    /\ egoArg \in Ids(actors)
    /\ distance \in Distances
    /\ retries \in 1..MaxRetries
    /\ invocations = 1

NextSpawn ==
    \/ SpawnEnter
    \/ \E accept \in BOOLEAN : SpawnAttempt(accept)
    \/ SpawnExhaust

SpecSpawn == InitSpawn /\ [][NextSpawn]_vars

\* ------------------------------------------------------------- properties
Accepted(k) == requests[k].vehicle # NoActor
AllRefused == \A k \in 1..Len(requests) : ~Accepted(k)
Created == Ids(actors) \ Ids(entryWorld.actors)
RefTransform == ActorById(entryWorld.actors, egoArg).transform
EgoIndexes0 ==
    { k \in 1..Len(world0.actors) :
        /\ world0.actors[k].type_id[1] = "vehicle"
        /\ IsEgo(world0.actors[k]) }
FirstEgo0 == world0.actors[CHOOSE k \in EgoIndexes0 : \A j \in EgoIndexes0 : k <= j]
TookControl0 == ~asynch /\ ~world0.settings.synchronous_mode

\* C1: attempt k (0-indexed) is the k+1-th request; when a request is
\* accepted it is the last one issued, the procedure has returned, and what
\* it returned is the handle that request produced.
C1_ReturnsFirstAccepted ==
    \A k \in 1..Len(requests) :
        /\ requests[k].index = k - 1
        /\ Accepted(k) =>
              /\ k = Len(requests)
              /\ fpc = "returned"
              /\ result = requests[k].vehicle
              /\ result \in Ids(actors)

C1_Witness ==
    /\ fpc = "returned"
    /\ Len(requests) = 3
    /\ retries > 3
    /\ ~Accepted(1) /\ ~Accepted(2) /\ Accepted(3)
    /\ result = requests[3].vehicle

\* C2: the procedure never issues more than `retries` requests, each pass
\* of the loop issues one, and when every request was refused it has
\* issued exactly `retries` of them when it returns, and returns None.
C2_ExhaustsAfterRetries ==
    /\ Len(requests) <= retries
    /\ fpc = "loop" => Len(requests) = i
    /\ (fpc = "returned" /\ AllRefused) =>
          /\ Len(requests) = retries
          /\ result = NoActor

C2_Witness ==
    /\ fpc = "returned"
    /\ AllRefused
    /\ retries = DefaultRetries
    /\ Len(requests) = DefaultRetries
    /\ result = NoActor

\* C3: when every attempt was refused, no exception is raised anywhere in
\* the run.
C3_ExhaustionRaisesNothing ==
    (fpc = "returned" /\ result = NoActor) =>
        (exc = "none" /\ exitExc = "none")

\* the idle loop was left by an exception; the teardown that answers it
C4_Interrupted ==
    pc = "finally" /\ exc \in {"KeyboardInterrupt", "RuntimeError"}
C4_TornDown ==
    /\ Len(batches) = 1
    /\ batches[1] = <<result>>
    /\ result # NoActor
    /\ destroyed = {result}
    /\ result \notin Ids(actors)
\* C4: once the idle loop is interrupted the program gets to have issued
\* one apply_batch whose destroy list is the id of the vehicle it spawned;
\* it never issues a second one, never destroys anything but that vehicle,
\* and in particular never the ego vehicle or an actor it found.
C4_TeardownOfTheSpawned ==
    /\ C4_Interrupted ~> C4_TornDown
    /\ [](/\ Len(batches) <= 1
          /\ destroyed \subseteq ({result} \ {NoActor})
          /\ ego_vehicle \notin destroyed
          /\ destroyed \cap Ids(world0.actors) = {}
          /\ Ids(world0.actors) \subseteq Ids(actors)
          /\ (pc = "done" /\ result # NoActor) => C4_TornDown)

C4_Witness ==
    /\ pc = "done"
    /\ exitExc = "none"
    /\ numTick > 0
    /\ C4_TornDown
    /\ ego_vehicle \in Ids(actors)

\* C5: one invocation creates no object or one: at most one request is
\* accepted, and when it returns a handle the world holds exactly one
\* object more than at entry, the one the handle names.
C5_AtMostOneCreated ==
    /\ Cardinality(Created) <= 1
    /\ Cardinality({ k \in 1..Len(requests) : Accepted(k) }) <= 1
    /\ (fpc = "returned" /\ result # NoActor) =>
          /\ Created = {result}
          /\ Len(actors) = Len(entryWorld.actors) + 1
    /\ (fpc = "returned" /\ result = NoActor) => Created = {}

C5_Witness ==
    /\ fpc = "returned"
    /\ result # NoActor
    /\ Len(requests) >= 2
    /\ Created = {result}

\* C6: the pose of attempt idx has the x and y of attempt 0, which is the
\* reference location plus the forward vector times the distance, its z
\* plus idx half units, and the reference rotation; the reference pose the
\* procedure read, and the ego vehicle's pose in the world, stay as read.
C6_CandidatePoses ==
    fpc \in {"loop", "returned"} =>
        /\ ego_transform = RefTransform
        /\ ActorById(actors, egoArg).transform = RefTransform
        /\ \A k \in 1..Len(requests) :
              LET c == requests[k].transform
                  c0 == requests[1].transform
              IN  /\ c0.location.x = RefTransform.location.x
                        + GetForwardVector(RefTransform).x * distance * HalvesPerUnit
                  /\ c0.location.y = RefTransform.location.y
                        + GetForwardVector(RefTransform).y * distance * HalvesPerUnit
                  /\ c0.location.z = RefTransform.location.z
                        + GetForwardVector(RefTransform).z * distance * HalvesPerUnit
                  /\ c.location.x = c0.location.x
                  /\ c.location.y = c0.location.y
                  /\ c.location.z = c0.location.z + requests[k].index * ZStepHalves
                  /\ c.rotation = RefTransform.rotation

C6_Witness ==
    /\ fpc = "returned"
    /\ Len(requests) = 4
    /\ requests[4].transform.location.z = requests[1].transform.location.z + 3
    /\ requests[4].transform.location.z
          = RefTransform.location.z + distance * HalvesPerUnit + 3
    /\ distance = DefaultDistance

\* C7: when the procedure returns None, the world's actors (the ego
\* vehicle's pose among them) and settings are those of its entry, and
\* nothing was destroyed.
C7_ExhaustionLeavesWorld ==
    (fpc = "returned" /\ result = NoActor) =>
        /\ actors = entryWorld.actors
        /\ worldSettings = entryWorld.settings
        /\ nextId = Len(entryWorld.actors) + 1
        /\ destroyed = {}
        /\ batches = <<>>

C7_Witness ==
    /\ fpc = "returned"
    /\ result = NoActor
    /\ Len(requests) = retries
    /\ retries >= 2
    /\ actors = entryWorld.actors

\* C8: an iteration of the idle loop calls world.tick when --asynch was not
\* given and the world was not synchronous when the program read its
\* settings, and world.wait_for_tick in every other case; the ownership
\* flag is that condition from the loop on and does not change in it.
C8_TickIffOwner ==
    /\ [](/\ numTick > 0 => TookControl0
          /\ numWait > 0 => ~TookControl0
          /\ pc = "idle" => (synchronous_master <=> TookControl0))
    /\ [][(pc = "idle" /\ pc' = "idle") =>
             IF TookControl0
             THEN numTick' = numTick + 1 /\ numWait' = numWait
             ELSE numWait' = numWait + 1 /\ numTick' = numTick]_vars
    /\ [][(pc = "idle") => (synchronous_master' = synchronous_master)]_vars

C8_Witness ==
    /\ ~asynch
    /\ world0.settings.synchronous_mode
    /\ numWait = 2
    /\ numTick = 0

\* C9: with no vehicle of the ego role, main issues no placement request,
\* never enters the idle loop, and its one apply_batch carries an empty
\* list; with one, the first of the actor list is the reference and the
\* procedure is invoked exactly once.
C9_EgoLookup ==
    /\ invocations <= 1
    /\ EgoIndexes0 = {} =>
          /\ invocations = 0
          /\ requests = <<>>
          /\ fpc = "idle"
          /\ pc \notin {"spawn_call", "idle"}
          /\ numTick + numWait = 0
          /\ \A k \in 1..Len(batches) : batches[k] = <<>>
          /\ pc = "done" => Len(batches) = 1
    /\ (EgoIndexes0 # {} /\ pc \notin {"start", "apply", "find_ego"}) =>
          /\ invocations = 1
          /\ ego_vehicle = FirstEgo0.id
          /\ egoArg = FirstEgo0.id
          /\ fpc \in {"loop", "returned"} => ego_transform = FirstEgo0.transform

C9_Witness ==
    /\ pc = "done"
    /\ EgoIndexes0 = {}
    /\ \E k \in 1..Len(world0.actors) : IsEgo(world0.actors[k])
    /\ batches = << <<>> >>
    /\ invocations = 0

\* C10: apply_settings is called once, before the ego lookup, and never
\* again; when the program took synchronous control the world stays in
\* synchronous mode with the fixed step of 0.05 s through termination, and
\* no world.tick is issued once the program is leaving.
C10_ControlNotReturned ==
    /\ [](/\ applyCount <= 1
          /\ pc \notin {"start", "apply"} =>
                /\ applyCount = 1
                /\ TookControl0 =>
                      worldSettings = [synchronous_mode |-> TRUE,
                                       fixed_delta_seconds |-> FixedDeltaMs])
    /\ [][(pc \in {"finally", "toplevel", "done"}) => (numTick' = numTick)]_vars
    /\ [][(applyCount' # applyCount) => (pc = "apply")]_vars

C10_Witness ==
    /\ pc = "done"
    /\ TookControl0
    /\ exitExc = "none"
    /\ numTick > 0
    /\ worldSettings.synchronous_mode
    /\ worldSettings.fixed_delta_seconds = FixedDeltaMs
====
